---- MODULE Spec2Model ----
(***************************************************************************)
(* oktaws: src/main.rs.  main() walks the configured Okta organizations    *)
(* one after another; for each it authenticates, resolves the selected     *)
(* profiles with a rayon parallel try_fold_with / try_reduce_with over     *)
(* fetch_credentials, merges the result into the credentials store, and    *)
(* after the last organization saves the store.                            *)
(*                                                                         *)
(* Strings that are formatted or glob-matched (organization and profile    *)
(* names, patterns, store keys) are tuples of one-character strings.       *)
(***************************************************************************)
EXTENDS Integers, Sequences, FiniteSets, Bags, TLC

\* ------------------------------------------------------------------ bounds
MaxOrgs == 2
MaxProfiles == 2

\* ------------------------------------------------------------- input data
acme == <<"a", "c", "m", "e">>
beta == <<"b", "e", "t", "a">>
corp == <<"c", "o", "r", "p">>
dev == <<"d", "e", "v">>
prod == <<"p", "r", "o", "d">>
ops == <<"o", "p", "s">>

NoStr == <<>>

ProfilePool ==
    << [name |-> dev, application_name |-> "aws-dev", role |-> "Admin"],
       [name |-> prod, application_name |-> "aws-prod", role |-> "PowerUser"],
       [name |-> ops, application_name |-> "aws-dev", role |-> "ReadOnly"] >>

OrgNamePool == <<acme, beta, corp>>

Min(a, b) == IF a < b THEN a ELSE b

\* An Organization: its okta_organization.name and its profiles, in file order.
OrganizationOf(i, n) ==
    [name |-> OrgNamePool[i],
     profiles |-> SubSeq(ProfilePool, 1, Min(n, Len(ProfilePool)))]

\* The configurations organizations() can yield: up to MaxOrgs organizations with
\* distinct names, each with the same 0..MaxProfiles profiles with distinct names
\* (the pattern decides how many of them each organization has selected).
Configurations ==
    { [i \in 1..m |-> OrganizationOf(i, n)] :
        m \in 0..Min(MaxOrgs, Len(OrgNamePool)), n \in 0..MaxProfiles }

\* Values of the --profiles argument (default "*/*").
Patterns ==
    { <<"*", "/", "*">>,
      <<"a", "c", "m", "e", "/", "*">>,
      <<"o", "t", "h", "e", "r", "/", "*">>,
      <<"b", "e", "t", "a", "/", "*">>,
      <<"*", "/", "d", "?", "v">> }

\* ------------------------------------------------------- pure operators
\* glob::Pattern::matches with the default MatchOptions, for patterns made of
\* literals, '?' and '*' ('*' also matches '/').
RECURSIVE matches(_, _)
matches(pattern, str) ==
    IF pattern = <<>> THEN str = <<>>
    ELSE IF Head(pattern) = "*"
         THEN \/ matches(Tail(pattern), str)
              \/ str # <<>> /\ matches(pattern, Tail(str))
         ELSE /\ str # <<>>
              /\ Head(pattern) = "?" \/ Head(pattern) = Head(str)
              /\ matches(Tail(pattern), Tail(str))

\* lines 80-84: format!("{}/{}", organization.okta_organization.name, p.name)
FilterKey(organization_name, name) == organization_name \o <<"/">> \o name

ProfileKeyNoOrg(organization_name, name) == name

\* lines 121-125: format!("{}/{}", organization.okta_organization.name, name)
ProfileKey(organization_name, name) == organization_name \o <<"/">> \o name


\* ------------------------------------------------------------- Result / Option
NoError == [message |-> "", organization |-> NoStr, profile |-> NoStr, role |-> "", cause |-> ""]

Error(message, organization, profile, role, cause) ==
    [message |-> message, organization |-> organization, profile |-> profile,
     role |-> role, cause |-> cause]

Ok(v) == [ok |-> TRUE, value |-> v, err |-> NoError]
Err(e) == [ok |-> FALSE, value |-> {}, err |-> e]

None == [some |-> FALSE, item |-> Ok({})]
Some(x) == [some |-> TRUE, item |-> x]

\* ------------------------------------------------------------------- HashMap
\* A HashMap is the set of its <<key, value>> entries; keys are unique.
HashMap_new == {}

Keys(m) == { e[1] : e \in m }

insert(m, k, v) == { e \in m : e[1] # k } \cup { <<k, v>> }

extendKeepLeft(a, b) == a

\* a.extend(b.into_iter())
extend(a, b) == { e \in a : e[1] \notin Keys(b) } \cup b

\* --------------------------------------------------------- external answers
Credentials(role, raw) == [role_arn |-> role.role_arn, saml |-> raw]

StaleCredentials == [role_arn |-> <<"stale">>, saml |-> <<"stale">>]

\* What CredentialsFile::new(None) can find on disk.
Files == { {}, { <<acme \o <<"/">> \o dev, StaleCredentials>> } }

NoLink == [app_name |-> "", label |-> "", link_url |-> ""]

AppLink(app_name, label, link_url) ==
    [app_name |-> app_name, label |-> label, link_url |-> link_url]

\* client.app_links(None): an error, or the application links of the session.
AppLinksResults ==
    { Err(Error("app_links request failed", NoStr, NoStr, "", "")),
      Ok(<< AppLink("amazon_aws", "aws-dev", "url-dev"),
            AppLink("amazon_aws", "aws-prod", "url-prod") >>),
      Ok(<< AppLink("bookmark", "aws-dev", "url-bookmark"),
            AppLink("amazon_aws", "aws-prod", "url-prod") >>) }

NoRole == [role_arn |-> <<>>]

Role(arn) == [role_arn |-> arn]

NoSaml == [roles |-> <<>>, raw |-> <<>>]

\* client.get_saml_response(url): an error, or the roles of the assertion in
\* assertion order (a role_arn is the tuple of its '/'-separated parts).
SamlRoleLists ==
    { << Role(<<"arn:1:role", "Admin">>), Role(<<"arn:malformed">>),
         Role(<<"arn:1:role", "ReadOnly">>) >>,
      << Role(<<"arn:malformed">>), Role(<<"arn:2:role", "Admin">>),
         Role(<<"arn:3:role", "Admin">>), Role(<<"arn:2:role", "PowerUser">>) >> }

\* Role::role_name: the part of role_arn after the first '/', an error without one.
role_name(r) ==
    IF Len(r.role_arn) < 2 THEN Err(Error("Not enough elements", NoStr, NoStr, "", ""))
    ELSE Ok(r.role_arn[2])

\* Iterator::find over the indices S that satisfy its predicate: the first one,
\* 0 for None.
First(S) == IF S = {} THEN 0 ELSE CHOOSE i \in S : \A j \in S : i <= j

AppLinkMatches(app_link, profile) ==
    app_link.app_name = "amazon_aws" /\ app_link.label = profile.application_name

RoleMatchesLenient(r, profile) ==
    IF role_name(r).ok THEN role_name(r).value = profile.role ELSE TRUE

\* |r| r.role_name().map(|r| r == profile.role).unwrap_or(false)
RoleMatches(r, profile) ==
    IF role_name(r).ok THEN role_name(r).value = profile.role ELSE FALSE

FindAppLinkLenient(app_links, profile) ==
    IF { i \in DOMAIN app_links : AppLinkMatches(app_links[i], profile) } = {}
    THEN 1
    ELSE First({ i \in DOMAIN app_links : AppLinkMatches(app_links[i], profile) })

\* lines 153-156: .into_iter().find(|app_link| ..) over the application links
FindAppLink(app_links, profile) ==
    First({ i \in DOMAIN app_links : AppLinkMatches(app_links[i], profile) })

FindRoleLast(roles, profile) ==
    LET S == { i \in DOMAIN roles : RoleMatches(roles[i], profile) }
    IN IF S = {} THEN 0 ELSE CHOOSE i \in S : \A j \in S : j <= i

\* lines 183-185: roles.into_iter().find(|r| ..)
FindRole(roles, profile) ==
    First({ i \in DOMAIN roles : RoleMatches(roles[i], profile) })

\* ------------------------------------------------------------------- state
VARIABLES
    args_profiles,      \* args.profiles, the selection pattern
    organizations,      \* the configured organizations, in iteration order
    file,               \* the credentials file on disk when the run starts
    disk,               \* the credentials file on disk
    pc,                 \* position of main()
    org_idx,            \* index of the organization the for loop is at
    credentials_store,  \* the CredentialsFile inside Arc<Mutex<..>>
    session_id,         \* the session id set on okta_client
    leaves,             \* rayon: the leaf jobs of the current parallel fold, in order
    full,               \* rayon: the `full` flag shared by the try_reduce_with consumers
    org_credentials,    \* the entries of org_credentials not yet stored
    error,              \* the error main() returned
    org_state,          \* per organization: how far its processing got
    calls,              \* bag of the calls made to collaborators
    fetched,            \* the result of every fetch_credentials call that returned
    warnings,           \* the organizations for which "No profiles" was logged
    holders,            \* the threads holding the guard of the store's Mutex
    arc_strong,         \* the strong count of the store's Arc
    poisoned,           \* the store's Mutex is poisoned
    saved_secrets       \* the organizations whose password save_credentials cached

vars ==
    << args_profiles, organizations, file, disk, pc, org_idx, credentials_store, session_id,
       leaves, full, org_credentials, error, org_state, calls, fetched, warnings,
       holders, arc_strong, poisoned, saved_secrets >>

\* Arc<Mutex<CredentialsFile>>: its guard holders, strong count and poison flag
sync == << holders, arc_strong, poisoned >>

inputs == << args_profiles, organizations, file >>

Call(op, org, profile, arg) == [op |-> op, org |-> org, profile |-> profile, arg |-> arg]

Called(c) == calls (+) SetToBag({c})

organization == organizations[org_idx]

SelectedAll(org, p) == TRUE

\* The filter of lines 79-85.
Selected(org, p) == matches(args_profiles, FilterKey(org.name, p.name))

Init ==
    /\ args_profiles \in Patterns
    /\ organizations \in Configurations
    /\ file \in Files
    /\ disk = file
    /\ pc = "new_store"
    /\ org_idx = 0
    /\ credentials_store = {}
    /\ session_id = NoStr
    /\ leaves = <<>>
    /\ full = FALSE
    /\ org_credentials = {}
    /\ error = NoError
    /\ org_state = [i \in DOMAIN organizations |-> "Idle"]
    /\ calls = EmptyBag
    /\ fetched = {}
    /\ warnings = {}
    /\ holders = {}
    /\ arc_strong = 1
    /\ poisoned = FALSE
    /\ saved_secrets = {}

\* ------------------------------------------------------------ main thread
MarkFailed == IF org_idx \in DOMAIN org_state
              THEN [org_state EXCEPT ![org_idx] = "Failed"] ELSE org_state

LoopNextSkipAuth == IF org_idx < Len(organizations) THEN "fan_out" ELSE "try_unwrap"

LoopNextSkipUnselected ==
    IF org_idx < Len(organizations)
    THEN IF \E j \in DOMAIN organizations[org_idx + 1].profiles :
                matches(args_profiles,
                        FilterKey(organizations[org_idx + 1].name,
                                  organizations[org_idx + 1].profiles[j].name))
         THEN "get_password"
         ELSE "fan_out"
    ELSE "try_unwrap"

\* The position after the body of the for loop for the current organization.
LoopNext == IF org_idx < Len(organizations) THEN "get_password" ELSE "try_unwrap"

PropagateAndContinue(e) ==
    /\ pc' = LoopNext
    /\ org_idx' = org_idx + 1
    /\ error' = error
    /\ org_state' = MarkFailed

PropagateAndSave(e) ==
    /\ pc' = "try_unwrap"
    /\ org_idx' = org_idx
    /\ error' = e
    /\ org_state' = MarkFailed

\* The `?` of main(): the error is returned and the run ends.
Propagate(e) ==
    /\ pc' = "failed"
    /\ org_idx' = org_idx
    /\ error' = e
    /\ org_state' = MarkFailed

NoOrganizationsNever(orgs) == FALSE

\* organizations.peek().is_none()
NoOrganizations(orgs) == Len(orgs) = 0

\* line 67: CredentialsFile::new(None)?
NewCredentialsFile ==
    /\ pc = "new_store"
    /\ \E ok \in BOOLEAN :
        IF ok
        THEN /\ credentials_store' = disk
             /\ pc' = "organizations"
             /\ UNCHANGED << org_idx, error, org_state >>
        ELSE /\ Propagate(Error("cannot read credentials file", NoStr, NoStr, "", ""))
             /\ UNCHANGED credentials_store
    /\ UNCHANGED << inputs, disk, session_id, leaves, full, org_credentials, calls,
                    fetched, warnings,
                    sync, saved_secrets >>

\* lines 69-75: organizations()?, the peek, and the entry into the loop
LoadOrganizations ==
    /\ pc = "organizations"
    /\ \E ok \in BOOLEAN :
        IF ~ok
        THEN Propagate(Error("cannot read organizations", NoStr, NoStr, "", ""))
        ELSE IF NoOrganizations(organizations)
        THEN Propagate(Error("No organizations found", NoStr, NoStr, "", ""))
        ELSE /\ pc' = LoopNext
             /\ org_idx' = org_idx + 1
             /\ UNCHANGED << error, org_state >>
    /\ UNCHANGED << inputs, disk, credentials_store, session_id, leaves, full,
                    org_credentials, calls, fetched, warnings,
                    sync, saved_secrets >>

\* lines 87-90: OktaClient::new(..), a client without a session, and
\* credentials::get_password(..)?
GetPassword ==
    /\ pc = "get_password"
    /\ session_id' = NoStr
    /\ calls' = Called(Call("get_password", org_idx, 0, NoStr))
    /\ \E ok \in BOOLEAN :
        IF ok
        THEN /\ pc' = "get_session_token"
             /\ org_state' = [org_state EXCEPT ![org_idx] = "Authenticating"]
             /\ UNCHANGED << org_idx, error >>
        ELSE Propagate(Error("cannot get password", NoStr, NoStr, "", ""))
    /\ UNCHANGED << inputs, disk, credentials_store, leaves, full,
                    org_credentials, fetched, warnings,
                    sync, saved_secrets >>

\* lines 92-95: okta_client.get_session_token(..)?
GetSessionToken ==
    /\ pc = "get_session_token"
    /\ calls' = Called(Call("get_session_token", org_idx, 0, NoStr))
    /\ \E ok \in BOOLEAN :
        IF ok
        THEN /\ pc' = "new_session"
             /\ UNCHANGED << org_idx, error, org_state >>
        ELSE Propagate(Error("login failed", NoStr, NoStr, "", ""))
    /\ UNCHANGED << inputs, disk, credentials_store, session_id, leaves, full,
                    org_credentials, fetched, warnings,
                    sync, saved_secrets >>

\* The id of the session the IdP opens for an organization's login.
NewSessionId(org) == <<"sid:">> \o org.name

set_session_id_forgotten(id) == session_id' = session_id

\* line 98: okta_client.set_session_id(session_id.clone())
set_session_id(id) == session_id' = id

\* lines 97-98: okta_client.new_session(..)?.id and set_session_id
NewSession ==
    /\ pc = "new_session"
    /\ \E ok \in BOOLEAN :
        IF ok
        THEN /\ pc' = "fan_out"
             /\ calls' = Called(Call("new_session", org_idx, 0, NewSessionId(organization)))
             /\ set_session_id(NewSessionId(organization))
             /\ org_state' = [org_state EXCEPT ![org_idx] = "SessionEstablished"]
             /\ UNCHANGED << org_idx, error >>
        ELSE /\ Propagate(Error("session exchange failed", NoStr, NoStr, "", ""))
             /\ calls' = Called(Call("new_session", org_idx, 0, NoStr))
             /\ UNCHANGED session_id
    /\ UNCHANGED << inputs, disk, credentials_store, leaves, full, org_credentials,
                    fetched, warnings,
                    sync, saved_secrets >>


\* ------------------------------------------------- rayon: the parallel fold
\* A leaf job of bridge_producer_consumer over organization.profiles[lo..hi-1]:
\* its FilterFolder / TryFoldFolder (acc) / TryReduceWithFolder (opt), and the
\* locals of the fetch_credentials call it is in.
Leaf(path, lo, hi) ==
    [path |-> path, lo |-> lo, hi |-> hi, st |-> "pending", cur |-> lo,
     acc |-> Ok(HashMap_new), opt |-> None, parts |-> 1,
     app_link |-> NoLink, saml |-> NoSaml, role |-> NoRole]

Replace(k, new) == SubSeq(leaves, 1, k - 1) \o new \o SubSeq(leaves, k + 1, Len(leaves))

\* The first profile at or after index `from` of the leaf that passes the filter,
\* 0 when the leaf has none left.
NextSelected(l, from) ==
    LET S == { j \in from..(l.hi - 1) : Selected(organization, organization.profiles[j]) }
    IN IF S = {} THEN 0 ELSE CHOOSE j \in S : \A i \in S : j <= i

reduce_op(a, b) == Ok(extend(a, b))

\* TryReduceWithFolder::consume
TryReduceWithConsume(opt, item) ==
    IF ~opt.some THEN Some(item)
    ELSE IF ~opt.item.ok THEN opt
    ELSE IF item.ok THEN Some(reduce_op(opt.item.value, item.value))
    ELSE Some(item)

TryReduceWithReduceLossy(left, right) ==
    IF left.some /\ right.some
    THEN IF left.item.ok /\ right.item.ok
         THEN Some(reduce_op(left.item.value, right.item.value))
         ELSE IF left.item.ok THEN left ELSE right
    ELSE IF left.some THEN left ELSE right

\* TryReduceWithConsumer's Reducer::reduce
TryReduceWithReduce(left, right) ==
    IF left.some /\ right.some
    THEN IF left.item.ok /\ right.item.ok
         THEN Some(reduce_op(left.item.value, right.item.value))
         ELSE IF ~left.item.ok THEN left ELSE right
    ELSE IF left.some THEN left ELSE right

\* line 100: the parallel iterator is driven
FanOut ==
    /\ pc = "fan_out"
    /\ pc' = "resolving"
    /\ leaves' = << Leaf(<<>>, 1, Len(organization.profiles) + 1) >>
    /\ full' = FALSE
    /\ org_state' = [org_state EXCEPT ![org_idx] = "Resolving"]
    /\ UNCHANGED << inputs, disk, org_idx, credentials_store, session_id, org_credentials,
                    error, calls, fetched, warnings,
                    sync, saved_secrets >>

rest == << inputs, disk, pc, org_idx, credentials_store, session_id, org_credentials,
           error, org_state, warnings, sync, saved_secrets >>

\* bridge_producer_consumer::helper: a job that is not full may split in halves
Split(k) ==
    /\ pc = "resolving"
    /\ leaves[k].st = "pending"
    /\ ~full
    /\ leaves[k].hi - leaves[k].lo >= 2
    /\ LET l == leaves[k]
           mid == l.lo + ((l.hi - l.lo) \div 2)
       IN leaves' = Replace(k, << Leaf(Append(l.path, "L"), l.lo, mid),
                                  Leaf(Append(l.path, "R"), mid, l.hi) >>)
    /\ UNCHANGED << rest, full, calls, fetched >>

\* helper's consumer.full() and Folder::consume_iter: unless the fold is full,
\* the next profile that passes the filter enters fetch_credentials
Advance(k) ==
    /\ pc = "resolving"
    /\ leaves[k].st \in {"pending", "ready"}
    /\ LET l == leaves[k]
           j == NextSelected(l, l.cur)
       IN leaves' = [leaves EXCEPT ![k] =
                        IF full \/ j = 0 THEN [l EXCEPT !.st = "finish"]
                        ELSE [l EXCEPT !.st = "app_links", !.cur = j]]
    /\ UNCHANGED << rest, full, calls, fetched >>

\* ------------------------------------------------------ fetch_credentials
NoCredentials == [role_arn |-> <<>>, saml |-> <<>>]

\* What one fetch_credentials call got and what it returned.
Fetched(j, saml, result, credentials) ==
    [org |-> org_idx, profile |-> j, saml |-> saml, ok |-> result.ok,
     credentials |-> credentials, err |-> result.err]

AppNotFoundError(org, profile) ==
    Error("Could not find Okta application for profile", org.name, profile.name, "", "")

SamlErrorNoProfile(org, profile, e) ==
    Error("Error getting SAML response for profile", NoStr, NoStr, "", e.message)

SamlError(org, profile, e) ==
    Error("Error getting SAML response for profile", NoStr, profile.name, "", e.message)

NoMatchingRoleError(org, profile) ==
    Error("No matching role found for profile", NoStr, profile.name, profile.role, "")

AssumeRoleError(org, profile, e) ==
    Error("Error assuming role for profile", NoStr, profile.name, "", e.message)

MissingCredentialsError ==
    Error("Error fetching credentials from assumed AWS role", NoStr, NoStr, "", "")

\* The closure of try_fold_with on Err: the `?` of line 105 ends the leaf's fold.
Failed(k, saml, e) ==
    /\ leaves' = [leaves EXCEPT ![k] =
            [@ EXCEPT !.st = "finish", !.acc = Err(e),
                      !.app_link = NoLink, !.saml = NoSaml, !.role = NoRole]]
    /\ fetched' = fetched \cup { Fetched(leaves[k].cur, saml, Err(e), NoCredentials) }

\* lines 151-163: client.app_links(None)? and the search for the application
AppLinks(k) ==
    /\ pc = "resolving"
    /\ leaves[k].st = "app_links"
    /\ LET l == leaves[k]
           profile == organization.profiles[l.cur]
       IN /\ calls' = Called(Call("app_links", org_idx, l.cur, session_id))
          /\ \E r \in AppLinksResults :
                IF ~r.ok THEN Failed(k, NoSaml, r.err)
                ELSE IF FindAppLink(r.value, profile) = 0
                THEN Failed(k, NoSaml, AppNotFoundError(organization, profile))
                ELSE /\ leaves' = [leaves EXCEPT ![k] =
                            [l EXCEPT !.st = "get_saml_response",
                                      !.app_link = r.value[FindAppLink(r.value, profile)]]]
                     /\ UNCHANGED fetched
    /\ UNCHANGED << rest, full >>

\* lines 167-192: client.get_saml_response(..) and the search for the role
GetSamlResponse(k) ==
    /\ pc = "resolving"
    /\ leaves[k].st = "get_saml_response"
    /\ LET l == leaves[k]
           profile == organization.profiles[l.cur]
           raw == <<"saml">> \o session_id \o << l.app_link.link_url >>
       IN /\ calls' = Called(Call("get_saml_response", org_idx, l.cur, session_id))
          /\ \E ok \in BOOLEAN : \E roles \in SamlRoleLists :
                IF ~ok
                THEN Failed(k, NoSaml, SamlError(organization, profile,
                                                 Error("transport", NoStr, NoStr, "", "")))
                ELSE IF FindRole(roles, profile) = 0
                THEN Failed(k, [roles |-> roles, raw |-> raw], NoMatchingRoleError(organization, profile))
                ELSE /\ leaves' = [leaves EXCEPT ![k] =
                            [l EXCEPT !.st = "assume_role",
                                      !.saml = [roles |-> roles, raw |-> raw],
                                      !.role = roles[FindRole(roles, profile)]]]
                     /\ UNCHANGED fetched
    /\ UNCHANGED << rest, full >>

\* lines 200-209 and 106-108: aws::role::assume_role(..), the credentials of the
\* response, and the insert into the leaf's accumulator
AssumeRole(k) ==
    /\ pc = "resolving"
    /\ leaves[k].st = "assume_role"
    /\ LET l == leaves[k]
           profile == organization.profiles[l.cur]
           credentials == Credentials(l.role, l.saml.raw)
       IN /\ calls' = Called(Call("assume_role", org_idx, l.cur, l.role.role_arn))
          /\ \E r \in {"error", "none", "some"} :
                IF r = "error"
                THEN Failed(k, l.saml, AssumeRoleError(organization, profile,
                                                       Error("sts", NoStr, NoStr, "", "")))
                ELSE IF r = "none"
                THEN Failed(k, l.saml, MissingCredentialsError)
                ELSE /\ leaves' = [leaves EXCEPT ![k] =
                            [l EXCEPT !.st = "ready", !.cur = l.cur + 1,
                                      !.acc = Ok(insert(l.acc.value, profile.name, credentials)),
                                      !.app_link = NoLink, !.saml = NoSaml, !.role = NoRole]]
                     /\ fetched' = fetched \cup { Fetched(l.cur, l.saml, Ok({}), credentials) }
    /\ UNCHANGED << rest, full >>

\* TryFoldFolder::complete: the accumulator is the one item the leaf hands to
\* its TryReduceWithFolder, which raises `full` on an error
CompleteLeaf(k) ==
    /\ pc = "resolving"
    /\ leaves[k].st = "finish"
    /\ LET l == leaves[k]
           opt == TryReduceWithConsume(l.opt, l.acc)
       IN /\ leaves' = [leaves EXCEPT ![k] =
                [l EXCEPT !.st = "complete", !.opt = opt, !.acc = Ok(HashMap_new),
                          !.app_link = NoLink, !.saml = NoSaml, !.role = NoRole]]
          /\ full' = (full \/ ~opt.item.ok)
    /\ UNCHANGED << rest, calls, fetched >>

Siblings(a, b) ==
    /\ Len(a.path) = Len(b.path)
    /\ Len(a.path) > 0
    /\ SubSeq(a.path, 1, Len(a.path) - 1) = SubSeq(b.path, 1, Len(b.path) - 1)

\* the join of two halves: their results are reduced, left before right
Reduce(k) ==
    /\ pc = "resolving"
    /\ k + 1 \in DOMAIN leaves
    /\ leaves[k].st = "complete"
    /\ leaves[k + 1].st = "complete"
    /\ Siblings(leaves[k], leaves[k + 1])
    /\ LET a == leaves[k]
           b == leaves[k + 1]
           parent == [a EXCEPT !.path = SubSeq(a.path, 1, Len(a.path) - 1),
                               !.hi = b.hi, !.cur = b.cur,
                               !.parts = a.parts + b.parts,
                               !.opt = TryReduceWithReduce(a.opt, b.opt)]
       IN leaves' = SubSeq(leaves, 1, k - 1) \o << parent >> \o SubSeq(leaves, k + 2, Len(leaves))
    /\ UNCHANGED << rest, full, calls, fetched >>

\* lines 110-117: the result of try_reduce_with, unwrap_or_else and `?`
Aggregate ==
    /\ pc = "resolving"
    /\ Len(leaves) = 1
    /\ leaves[1].st = "complete"
    /\ LET opt == leaves[1].opt
           result == IF opt.some THEN opt.item ELSE Ok(HashMap_new)
       IN /\ warnings' = IF opt.some THEN warnings ELSE warnings \cup {org_idx}
          /\ IF result.ok
             THEN /\ org_credentials' = result.value
                  /\ pc' = "merge"
                  /\ org_state' = [org_state EXCEPT ![org_idx] = "Aggregated"]
                  /\ UNCHANGED << org_idx, error >>
             ELSE /\ Propagate(result.err)
                  /\ UNCHANGED org_credentials
    /\ leaves' = <<>>
    /\ UNCHANGED << inputs, disk, credentials_store, session_id, full, calls, fetched,
                    sync, saved_secrets >>

\* ------------------------------------------------- store merge and the end
MutexLockNoGuard(t) == holders' = holders

\* Mutex::lock: blocks while another thread holds the guard
MutexLock(t) ==
    /\ holders = {}
    /\ holders' = {t}

MutexUnlockLeak(t) == holders' = holders

\* the MutexGuard temporary is dropped at the end of the statement
MutexUnlock(t) == holders' = holders \ {t}

\* lines 119-120: the loop over org_credentials has an entry left and takes the lock
LockStore ==
    /\ pc = "merge"
    /\ org_credentials # {}
    /\ MutexLock("main")
    /\ pc' = "locked"
    /\ UNCHANGED << inputs, disk, org_idx, credentials_store, session_id, leaves, full,
                    org_credentials, error, org_state, calls, fetched, warnings,
                    arc_strong, poisoned, saved_secrets >>

\* lines 120-127: set_profile_sts(..)? on the guarded store, for the entry at hand
SetProfileSts ==
    /\ pc = "locked"
    /\ MutexUnlock("main")
    /\ \E entry \in org_credentials : \E ok \in BOOLEAN :
        LET key == ProfileKey(organization.name, entry[1])
        IN /\ calls' = Called(Call("set_profile_sts", org_idx, 0, key))
           /\ IF ok
              THEN /\ credentials_store' = insert(credentials_store, key, entry[2])
                   /\ org_credentials' = org_credentials \ {entry}
                   /\ pc' = "merge"
                   /\ UNCHANGED << org_idx, error, org_state >>
              ELSE /\ Propagate(Error("cannot set profile", NoStr, NoStr, "", ""))
                   /\ UNCHANGED << credentials_store, org_credentials >>
    /\ UNCHANGED << inputs, disk, session_id, leaves, full, fetched, warnings,
                    arc_strong, poisoned, saved_secrets >>

MergedEarly ==
    /\ pc = "merge"
    /\ pc' = "save_credentials"
    /\ org_state' = [org_state EXCEPT ![org_idx] = "Merged"]
    /\ UNCHANGED << inputs, disk, org_idx, credentials_store, session_id, leaves, full,
                    org_credentials, error, calls, fetched, warnings,
                    sync, saved_secrets >>

\* the loop over org_credentials is exhausted
Merged ==
    /\ pc = "merge"
    /\ org_credentials = {}
    /\ pc' = "save_credentials"
    /\ org_state' = [org_state EXCEPT ![org_idx] = "Merged"]
    /\ UNCHANGED << inputs, disk, org_idx, credentials_store, session_id, leaves, full,
                    org_credentials, error, calls, fetched, warnings,
                    sync, saved_secrets >>

\* line 130: credentials::save_credentials(..)?, then the next organization
SaveCredentials ==
    /\ pc = "save_credentials"
    /\ calls' = Called(Call("save_credentials", org_idx, 0, NoStr))
    /\ \E ok \in BOOLEAN :
        IF ok
        THEN /\ pc' = LoopNext
             /\ org_idx' = org_idx + 1
             /\ saved_secrets' = saved_secrets \cup {org_idx}
             /\ UNCHANGED << error, org_state >>
        ELSE /\ Propagate(Error("cannot save password", NoStr, NoStr, "", ""))
             /\ UNCHANGED saved_secrets
    /\ UNCHANGED << inputs, disk, credentials_store, session_id, leaves, full,
                    org_credentials, fetched, warnings,
                    sync >>

\* lines 133-138: Arc::try_unwrap, Mutex::into_inner and CredentialsFile::save
Save ==
    /\ pc = "try_unwrap"
    /\ IF arc_strong # 1
       THEN /\ Propagate(Error("Failed to un-reference-count the credentials store",
                               NoStr, NoStr, "", ""))
            /\ UNCHANGED << disk, calls >>
       ELSE IF poisoned
       THEN /\ Propagate(Error("Failed to un-mutex the credentials store",
                               NoStr, NoStr, "", ""))
            /\ UNCHANGED << disk, calls >>
       ELSE /\ calls' = Called(Call("save", 0, 0, NoStr))
            /\ \E ok \in BOOLEAN :
                 IF ok
                 THEN /\ disk' = credentials_store
                      /\ pc' = "done"
                      /\ UNCHANGED << org_idx, error, org_state >>
                 ELSE /\ Propagate(Error("cannot write credentials file", NoStr, NoStr, "", ""))
                      /\ UNCHANGED disk
    /\ UNCHANGED << inputs, credentials_store, session_id, leaves, full, org_credentials,
                    fetched, warnings, sync, saved_secrets >>

Next ==
    \/ NewCredentialsFile
    \/ LoadOrganizations
    \/ GetPassword
    \/ GetSessionToken
    \/ NewSession
    \/ FanOut
    \/ \E k \in DOMAIN leaves : Split(k)
    \/ \E k \in DOMAIN leaves : Advance(k)
    \/ \E k \in DOMAIN leaves : AppLinks(k)
    \/ \E k \in DOMAIN leaves : GetSamlResponse(k)
    \/ \E k \in DOMAIN leaves : AssumeRole(k)
    \/ \E k \in DOMAIN leaves : CompleteLeaf(k)
    \/ \E k \in DOMAIN leaves : Reduce(k)
    \/ Aggregate
    \/ LockStore
    \/ SetProfileSts
    \/ Merged
    \/ SaveCredentials
    \/ Save

Spec == Init /\ [][Next]_vars

\* main() runs to its end and rayon's pool keeps running jobs that are ready: a
\* step that can be taken is eventually taken.
FairSpec == Spec /\ WF_vars(Next)

\* ------------------------------------------------------------- properties
Orgs == DOMAIN organizations

ProfilesOf(i) == DOMAIN organizations[i].profiles

\* The profiles of organization i whose "<organization>/<profile>" matches the pattern.
SelectedProfiles(i) ==
    { j \in ProfilesOf(i) :
        matches(args_profiles,
                organizations[i].name \o <<"/">> \o organizations[i].profiles[j].name) }

\* The composite keys "<organization>/<profile>" of organization i.
KeysOfOrg(i) ==
    { organizations[i].name \o <<"/">> \o organizations[i].profiles[j].name : j \in ProfilesOf(i) }

CallsMade == BagToSet(calls)

Terminated == pc \in {"done", "failed"}

\* The fold of the current organization has produced its final result.
FoldDone == pc = "resolving" /\ Len(leaves) = 1 /\ leaves[1].st = "complete"

\* C1: fail-fast isolation.  Once the pipeline of a selected profile of an
\* organization has failed, the organization's aggregate is a failure (it never gets
\* to Aggregated or Merged, the result of the fold is an error and the organization
\* ends Failed), no set_profile_sts call of this run writes a key of that
\* organization, and the store's entries under its keys are those the run started
\* with, also when other pipelines of the organization succeeded.
C1_FailFastIsolation ==
    \A f \in fetched :
        ~f.ok =>
            /\ f.profile \in SelectedProfiles(f.org)
            /\ org_state[f.org] \in {"Resolving", "Failed"}
            /\ (FoldDone /\ org_idx = f.org) => ~leaves[1].opt.item.ok
            /\ Terminated => pc = "failed" /\ org_state[f.org] = "Failed"
            /\ \A c \in CallsMade :
                   c.op = "set_profile_sts" => c.org # f.org /\ c.arg \notin KeysOfOrg(f.org)
            /\ { e \in credentials_store : e[1] \in KeysOfOrg(f.org) }
                   = { e \in file : e[1] \in KeysOfOrg(f.org) }

\* C1 witness: the run ended after an organization in which one pipeline
\* succeeded and another failed.
C1_Witness ==
    /\ pc = "failed"
    /\ \E f \in fetched, g \in fetched : f.org = g.org /\ ~f.ok /\ g.ok

SaveCall == Call("save", 0, 0, NoStr)

\* C2: CredentialsFile::save is invoked at most once, and only when every
\* configured organization is Merged; once an organization has failed it is never
\* invoked and the file on disk is the one the run started with, whatever was
\* merged for earlier organizations.
C2_PersistOnceAtEnd ==
    /\ CopiesIn(SaveCall, calls) <= 1
    /\ CopiesIn(SaveCall, calls) >= 1 => \A i \in Orgs : org_state[i] = "Merged"
    /\ disk # file => CopiesIn(SaveCall, calls) = 1 /\ pc = "done"
    /\ (\E i \in Orgs : org_state[i] = "Failed") =>
           /\ CopiesIn(SaveCall, calls) = 0
           /\ disk = file
           /\ pc = "failed"

\* C2 witness: a later organization failed after the entries of an earlier one
\* were merged into the store; nothing of it is on disk.
C2_Witness ==
    /\ pc = "failed"
    /\ \E i \in Orgs, j \in Orgs :
          /\ i < j
          /\ org_state[i] = "Merged"
          /\ org_state[j] = "Failed"
          /\ \E e \in credentials_store : e[1] \in KeysOfOrg(i) /\ e \notin file
    /\ disk = file

\* C3: once an organization has failed, the run has ended with a failure,
\* every later organization is still Idle and no call at all was made for it.
C3_RunAbort ==
    \A i \in Orgs :
        org_state[i] = "Failed" =>
            /\ pc = "failed"
            /\ error # NoError
            /\ \A j \in Orgs : j > i => org_state[j] = "Idle"
            /\ \A c \in CallsMade : c.org <= i
            /\ \A f \in fetched : f.org <= i

\* C3 witness: the first of several organizations failed.
C3_Witness ==
    /\ Len(organizations) >= 2
    /\ org_state[1] = "Failed"
    /\ pc = "failed"

\* C4 (as claimed): an organization with no selected profile is aggregated to the
\* empty mapping without a fatal error, and "No profiles" is logged for it.
C4_NoProfilesWarning ==
    \A i \in Orgs :
        (SelectedProfiles(i) = {} /\ org_state[i] \in {"Resolving", "Aggregated", "Merged"}) =>
            /\ (FoldDone /\ org_idx = i) => leaves[1].opt.item.ok
            /\ org_state[i] \in {"Aggregated", "Merged"} => i \in warnings

\* C5 (as claimed): a successful run in which the pattern selects no profile
\* leaves the store as it was and has logged "No profiles" for its organizations.
C5_NoMatchWarnsAndExitsZero ==
    (pc = "done" /\ \A i \in Orgs : SelectedProfiles(i) = {}) =>
        /\ credentials_store = file
        /\ warnings = Orgs

\* Some role option of the assertion has a derived name equal to `name`.
HasRoleNamed(roles, name) ==
    \E n \in DOMAIN roles : role_name(roles[n]).ok /\ role_name(roles[n]).value = name

ProfileOf(f) == organizations[f.org].profiles[f.profile]

AssumeRoleCalls(i, j) == { c \in CallsMade : c.op = "assume_role" /\ c.org = i /\ c.profile = j }

\* C6: a pipeline whose assertion holds no role option with the profile's role
\* name fails with the role-not-found error naming the profile and the requested
\* role, and assume_role is never called for that profile; a pipeline that is about
\* to call or has called assume_role holds an assertion with such a role option.
C6_RoleNotFound ==
    /\ \A f \in fetched :
          (f.saml # NoSaml /\ ~HasRoleNamed(f.saml.roles, ProfileOf(f).role)) =>
              /\ ~f.ok
              /\ f.err.message = "No matching role found for profile"
              /\ f.err.profile = ProfileOf(f).name
              /\ f.err.role = ProfileOf(f).role
              /\ AssumeRoleCalls(f.org, f.profile) = {}
    /\ \A k \in DOMAIN leaves :
          leaves[k].st = "assume_role" =>
              HasRoleNamed(leaves[k].saml.roles, organization.profiles[leaves[k].cur].role)
    /\ \A c \in CallsMade :
          c.op = "assume_role" =>
              /\ Len(c.arg) >= 2
              /\ c.arg[2] = organizations[c.org].profiles[c.profile].role

\* C6 witness: a pipeline got an assertion whose only candidate for the role is
\* a role option without a parsable name, and failed.
C6_Witness ==
    \E f \in fetched :
        /\ f.saml # NoSaml
        /\ ~HasRoleNamed(f.saml.roles, ProfileOf(f).role)
        /\ \E n \in DOMAIN f.saml.roles : ~role_name(f.saml.roles[n]).ok
        /\ ~f.ok

\* The mapping an organization's pipelines gave for profiles lo..hi-1: profile
\* name to the credentials its fetch_credentials call returned.
Expected(i, lo, hi) ==
    { << organizations[i].profiles[f.profile].name, f.credentials >> :
        f \in { g \in fetched : g.org = i /\ g.ok /\ g.profile \in lo..(hi - 1) } }

\* C7: order-independent merge.  Whatever the split of the fold, the order in
\* which the leaves ran and finished and the order of the reductions, a successful
\* (partial or final) result is exactly the mapping from profile name to the
\* credentials its pipeline returned, and as long as no pipeline has failed its
\* keys are the names of all the selected profiles in its range.
C7_OrderIndependentMerge ==
    \A k \in DOMAIN leaves :
        (leaves[k].st = "complete" /\ leaves[k].opt.item.ok) =>
            /\ leaves[k].opt.item.value = Expected(org_idx, leaves[k].lo, leaves[k].hi)
            /\ ~full =>
                  Keys(leaves[k].opt.item.value) =
                      { organization.profiles[j].name :
                          j \in SelectedProfiles(org_idx) \cap (leaves[k].lo..(leaves[k].hi - 1)) }

\* C7 witness: the final result of a fold that was split and reduced holds
\* the credentials of two profiles.
C7_Witness ==
    /\ FoldDone
    /\ leaves[1].parts >= 2
    /\ leaves[1].opt.item.ok
    /\ Cardinality(leaves[1].opt.item.value) >= 2

\* C8: after a successful run, for every organization O and profile P whose
\* "O/P" matches the pattern, the store (in memory and on disk) holds under the key
\* "O/P" exactly the credentials that P's exchange returned, and these are
\* credentials for a role whose name is P's role.
C8_StoreEntries ==
    pc = "done" =>
        \A i \in Orgs : \A j \in ProfilesOf(i) :
            LET O == organizations[i]
                P == O.profiles[j]
                key == O.name \o <<"/">> \o P.name
            IN matches(args_profiles, key) =>
                  \E f \in fetched :
                      /\ f.org = i /\ f.profile = j /\ f.ok
                      /\ << key, f.credentials >> \in credentials_store
                      /\ \A e \in credentials_store : e[1] = key => e[2] = f.credentials
                      /\ << key, f.credentials >> \in disk
                      /\ role_name(Role(f.credentials.role_arn)).value = P.role

\* C8 witness: organization acme with profile dev and pattern "acme/*" ended
\* with an entry "acme/dev" that replaced the one on disk.
C8_Witness ==
    /\ pc = "done"
    /\ args_profiles = <<"a", "c", "m", "e", "/", "*">>
    /\ \E e \in disk : e[1] = <<"a", "c", "m", "e", "/", "d", "e", "v">> /\ e[2] # StaleCredentials
    /\ file # {}

\* C9: with no organization configured the run makes no call at all (no secret,
\* no login, no session, no pipeline, no save), never succeeds, leaves the file
\* on disk alone, and once the configuration was read it has failed with
\* "No organizations found".
C9_NoOrganizations ==
    Len(organizations) = 0 =>
        /\ calls = EmptyBag
        /\ fetched = {}
        /\ leaves = <<>>
        /\ disk = file
        /\ pc \in {"new_store", "organizations", "failed"}
        /\ pc = "failed" =>
              error.message \in {"cannot read credentials file", "cannot read organizations",
                                 "No organizations found"}

\* C9 witness: the run over an empty configuration failed at the peek.
C9_Witness ==
    /\ Len(organizations) = 0
    /\ pc = "failed"
    /\ error.message = "No organizations found"

\* C10 (as claimed): every failed pipeline's error carries both the organization
\* name and the profile name.
C10_ErrorsNameOrganizationAndProfile ==
    \A f \in fetched :
        ~f.ok => /\ f.err.organization = organizations[f.org].name
                 /\ f.err.profile = ProfileOf(f).name

\* C10 (amended): every failed pipeline returns one error, and when the
\* aggregate fails the run ends with one of its pipelines' errors unchanged.
\* The application-not-found error names organization and profile; the assertion
\* and role-assumption errors name the profile and carry their cause; the
\* role-not-found error names the profile and the role; none of these three names
\* the organization; a failed application-link fetch is passed on as it is and
\* the missing-credentials error names nothing.
C10_ErrorContext ==
    /\ \A f \in fetched :
          ~f.ok =>
              LET e == f.err
                  O == organizations[f.org]
                  P == ProfileOf(f)
              IN /\ e # NoError
                 /\ e.message = "Could not find Okta application for profile" =>
                        e.organization = O.name /\ e.profile = P.name
                 /\ e.message = "Error getting SAML response for profile" =>
                        e.organization = NoStr /\ e.profile = P.name /\ e.cause # ""
                 /\ e.message = "No matching role found for profile" =>
                        e.organization = NoStr /\ e.profile = P.name /\ e.role = P.role
                 /\ e.message = "Error assuming role for profile" =>
                        e.organization = NoStr /\ e.profile = P.name /\ e.cause # ""
                 /\ e.message = "Error fetching credentials from assumed AWS role" =>
                        e.organization = NoStr /\ e.profile = NoStr
                 /\ e.message = "app_links request failed" =>
                        e.organization = NoStr /\ e.profile = NoStr
                 /\ e.message \in
                        { "Could not find Okta application for profile",
                          "Error getting SAML response for profile",
                          "No matching role found for profile",
                          "Error assuming role for profile",
                          "Error fetching credentials from assumed AWS role",
                          "app_links request failed" }
    /\ (pc = "failed" /\ \E f \in fetched : f.org = org_idx /\ ~f.ok) =>
          error \in { f.err : f \in { g \in fetched : g.org = org_idx /\ ~g.ok } }

\* C10 witness: the run ended with the error of a failed assertion fetch.
C10_Witness ==
    /\ pc = "failed"
    /\ error.message = "Error getting SAML response for profile"
    /\ \E f \in fetched : ~f.ok /\ f.err = error

\* The number of calls of `op` made for organization i.
CountOrg(op, i) ==
    BagCardinality([c \in { d \in CallsMade : d.op = op /\ d.org = i } |-> CopiesIn(c, calls)])

\* The calls of `op` made by the pipeline of profile j of organization i.
PipelineCalls(op, i, j) == { c \in CallsMade : c.op = op /\ c.org = i /\ c.profile = j }

PipelineOps == {"app_links", "get_saml_response", "assume_role"}

\* A step that makes a set_profile_sts call.
StoreCallMade ==
    \E c \in BagToSet(calls') :
        c.op = "set_profile_sts" /\ CopiesIn(c, calls') > CopiesIn(c, calls)

\* C11: store mutual exclusion.  At most one thread holds the guard of the
\* store's Mutex; every set_profile_sts call and every change of the store after
\* it was loaded is a step of the main thread holding the guard; while the profile
\* pipelines run nobody holds the guard and the store does not change.
C11_StoreMutualExclusion ==
    [][ /\ Cardinality(holders') <= 1
        /\ StoreCallMade => holders = {"main"} /\ pc = "locked"
        /\ credentials_store' # credentials_store =>
               pc = "new_store" \/ (holders = {"main"} /\ pc = "locked")
        /\ pc = "resolving" => credentials_store' = credentials_store /\ holders' = {}
      ]_vars

\* C11 witness: the main thread holds the guard again after an earlier
\* set_profile_sts call of this run wrote the store.
C11_Witness ==
    /\ holders = {"main"}
    /\ pc = "locked"
    /\ \E c \in CallsMade : c.op = "set_profile_sts"
    /\ credentials_store # file

\* C12: for every organization the loop has reached, get_password was called
\* exactly once (never twice), by the main thread while no fold was running, and
\* before any call of one of its profile pipelines; a get_password call is never
\* made from a pipeline.
C12_SecretOnceBeforeFanOut ==
    /\ \A i \in Orgs :
          /\ CountOrg("get_password", i) <= 1
          /\ (org_state[i] # "Idle" \/ i < org_idx) => CountOrg("get_password", i) = 1
          /\ (\E c \in CallsMade : c.org = i /\ c.op \in PipelineOps) =>
                 CountOrg("get_password", i) = 1
          /\ (\E f \in fetched : f.org = i) => CountOrg("get_password", i) = 1
    /\ leaves # <<>> => pc = "resolving" /\ CountOrg("get_password", org_idx) = 1
    /\ pc = "get_password" => leaves = <<>>
    /\ \A c \in CallsMade : c.op = "get_password" => c.profile = 0

\* C12 witness: two pipelines of the second organization are running, after one
\* get_password call for each organization.
C12_Witness ==
    /\ org_idx = 2
    /\ Len(leaves) >= 2
    /\ \E k \in DOMAIN leaves : leaves[k].st = "get_saml_response"
    /\ CountOrg("get_password", 1) = 1
    /\ CountOrg("get_password", 2) = 1

\* C13: within one pipeline the steps follow one another: the assertion is
\* fetched only after one application-link fetch that found the profile's
\* application, the role is assumed only after one assertion fetch that held a
\* matching role, and a pipeline that failed at a step made none of the later calls.
C13_PipelineSequential ==
    /\ \A k \in DOMAIN leaves :
          LET l == leaves[k]
              P == organization.profiles[l.cur]
              n(op) == Cardinality(PipelineCalls(op, org_idx, l.cur))
          IN /\ l.st = "app_links" =>
                    n("app_links") = 0 /\ n("get_saml_response") = 0 /\ n("assume_role") = 0
             /\ l.st = "get_saml_response" =>
                    /\ n("app_links") = 1 /\ n("get_saml_response") = 0 /\ n("assume_role") = 0
                    /\ AppLinkMatches(l.app_link, P)
             /\ l.st = "assume_role" =>
                    /\ n("app_links") = 1 /\ n("get_saml_response") = 1 /\ n("assume_role") = 0
                    /\ RoleMatches(l.role, P)
    /\ \A f \in fetched :
          LET n(op) == Cardinality(PipelineCalls(op, f.org, f.profile))
          IN /\ n("app_links") = 1
             /\ f.err.message \in {"app_links request failed",
                                   "Could not find Okta application for profile"} =>
                    n("get_saml_response") = 0 /\ n("assume_role") = 0
             /\ f.err.message \in {"Error getting SAML response for profile",
                                   "No matching role found for profile"} =>
                    n("get_saml_response") = 1 /\ n("assume_role") = 0
             /\ (f.ok \/ f.err.message \in {"Error assuming role for profile",
                                            "Error fetching credentials from assumed AWS role"}) =>
                    n("get_saml_response") = 1 /\ n("assume_role") = 1

\* C13 witness: a pipeline failed because its application link is absent, and
\* no assertion was fetched for it.
C13_Witness ==
    \E f \in fetched :
        /\ f.err.message = "Could not find Okta application for profile"
        /\ PipelineCalls("get_saml_response", f.org, f.profile) = {}
        /\ PipelineCalls("app_links", f.org, f.profile) # {}

InProgress == {"Authenticating", "SessionEstablished", "Resolving", "Aggregated"}

\* C14: organizations are processed one after another.  At most one
\* organization is between Authenticating and Aggregated; an organization has left
\* Idle, or has any call made for it, only when every earlier one is Merged; and
\* pipelines exist only for the one organization that is Resolving.
C14_OrganizationsSequential ==
    /\ Cardinality({ i \in Orgs : org_state[i] \in InProgress }) <= 1
    /\ \A i \in Orgs : \A h \in Orgs :
          (h < i /\ (org_state[i] # "Idle" \/ \E c \in CallsMade : c.org = i)) =>
              org_state[h] = "Merged"
    /\ leaves # <<>> =>
          /\ org_state[org_idx] = "Resolving"
          /\ \A i \in Orgs : i # org_idx => org_state[i] \in {"Idle", "Merged"}
    /\ \A i \in Orgs : org_state[i] = "Resolving" => i = org_idx /\ pc = "resolving"

\* C14 witness: the second organization is resolving its profiles, the first one
\* is Merged.
C14_Witness ==
    /\ Len(organizations) >= 2
    /\ org_state[1] = "Merged"
    /\ org_state[2] = "Resolving"
    /\ \E k \in DOMAIN leaves : leaves[k].st = "assume_role"

\* The state part of C15: the session ids the calls made so far carry.
SessionIdsOwned ==
    /\ \A c \in CallsMade :
          c.op \in {"app_links", "get_saml_response"} =>
              /\ c.arg # NoStr
              /\ CopiesIn(Call("new_session", c.org, 0, c.arg), calls) = 1
              /\ \A d \in CallsMade :
                     (d.org # c.org /\ d.op \in {"new_session", "app_links", "get_saml_response"})
                         => d.arg # c.arg
    /\ \A k \in DOMAIN leaves :
          leaves[k].st \in {"app_links", "get_saml_response"} =>
              CopiesIn(Call("new_session", org_idx, 0, session_id), calls) = 1
    /\ \A f \in fetched :
          f.saml # NoSaml =>
              CopiesIn(Call("new_session", f.org, 0, SubSeq(f.saml.raw, 2, Len(f.saml.raw) - 1)),
                       calls) = 1
    /\ pc \in {"get_session_token", "new_session"} => session_id = NoStr

\* C15: session ownership.  Every application-link and assertion call of a
\* pipeline of organization O carries the session id that new_session returned for
\* O in this run, which no call for another organization returned or carries; such
\* calls are made only while O is Resolving, and the client of an organization
\* starts without a session.
C15_SessionOwnership ==
    /\ []SessionIdsOwned
    /\ [][ (\E c \in BagToSet(calls') :
                /\ c.op \in {"app_links", "get_saml_response"}
                /\ CopiesIn(c, calls') > CopiesIn(c, calls))
           => pc = "resolving" /\ org_state[org_idx] = "Resolving" ]_vars

\* C15 witness: a pipeline of the second organization fetched its assertion
\* with the second organization's session.
C15_Witness ==
    \E c \in CallsMade :
        /\ c.op = "get_saml_response"
        /\ c.org = 2
        /\ c.arg = NewSessionId(organizations[2])

\* The first role of the assertion, in assertion order, whose parsed name is
\* the target role of the profile; 0 when there is none.
FirstNamed(roles, target) ==
    First({ n \in DOMAIN roles : Len(roles[n].role_arn) >= 2 /\ roles[n].role_arn[2] = target })

\* C16: the role that is exchanged is the first one, in assertion order, whose
\* parsed name equals the profile's role; roles without a parsable name are passed
\* over and the pipeline fails with "No matching role" only when no role of the
\* assertion carries that name.
C16_FirstMatchingRole ==
    /\ \A k \in DOMAIN leaves :
          leaves[k].st = "assume_role" =>
              LET l == leaves[k]
                  n == FirstNamed(l.saml.roles, organization.profiles[l.cur].role)
              IN n # 0 /\ l.role = l.saml.roles[n]
    /\ \A f \in fetched :
          LET target == organizations[f.org].profiles[f.profile].role
              n      == FirstNamed(f.saml.roles, target)
          IN /\ f.err.message = "No matching role found for profile" <=>
                    (f.saml # NoSaml /\ n = 0)
             /\ (f.saml # NoSaml /\ n # 0) =>
                    /\ PipelineCalls("assume_role", f.org, f.profile) =
                           { Call("assume_role", f.org, f.profile, f.saml.roles[n].role_arn) }
                    /\ f.ok => f.credentials.role_arn = f.saml.roles[n].role_arn

\* C16 witness: an assertion that starts with an unparsable role and names
\* Admin twice was exchanged for the first Admin role.
C16_Witness ==
    \E f \in fetched :
        /\ f.ok
        /\ Len(f.saml.roles) = 4
        /\ role_name(f.saml.roles[1]).ok = FALSE
        /\ role_name(f.saml.roles[3]).value = organizations[f.org].profiles[f.profile].role
        /\ f.credentials.role_arn = f.saml.roles[2].role_arn

\* Profile j of organization i has a "<organization>/<profile>" string that matches
\* the pattern.
IsSelected(i, j) ==
    matches(args_profiles,
            organizations[i].name \o <<"/">> \o organizations[i].profiles[j].name)

\* C17: assume_role is called at most once for an (organization, profile)
\* pair and only for a profile the pattern selects; when the fold of an organization
\* returned Ok it was called exactly once for each selected profile.
C17_ExchangeOncePerSelectedProfile ==
    LET A == { c \in CallsMade : c.op = "assume_role" }
    IN /\ \A c \in A :
             /\ CopiesIn(c, calls) = 1
             /\ c.org \in Orgs /\ c.profile \in ProfilesOf(c.org)
             /\ IsSelected(c.org, c.profile)
             /\ \A d \in A : (d.org = c.org /\ d.profile = c.profile) => d = c
       /\ \A i \in Orgs :
             org_state[i] \in {"Aggregated", "Merged"} =>
                 \A j \in ProfilesOf(i) :
                     IsSelected(i, j) => \E c \in A : c.org = i /\ c.profile = j

\* C17 witness: an organization with a selected and an unselected profile was
\* aggregated after one exchange.
C17_Witness ==
    \E i \in Orgs :
        /\ org_state[i] = "Aggregated"
        /\ SelectedProfiles(i) # {}
        /\ SelectedProfiles(i) # ProfilesOf(i)
        /\ \A j \in SelectedProfiles(i) : Cardinality(PipelineCalls("assume_role", i, j)) = 1

\* The state part of C18.
SecretsSavedAfterMerge ==
    /\ \A i \in Orgs :
          /\ CountOrg("save_credentials", i) <= 1
          /\ CountOrg("save_credentials", i) = 1 =>
                 /\ \A j \in SelectedProfiles(i) :
                        /\ \E f \in fetched : f.org = i /\ f.profile = j /\ f.ok
                        /\ ProfileKey(organizations[i].name, organizations[i].profiles[j].name)
                               \in Keys(credentials_store)
                 /\ \A f \in fetched : f.org = i => f.ok
                 /\ \A h \in Orgs : h <= i =>
                        CountOrg("get_session_token", h) = 1 /\ CountOrg("new_session", h) = 1
          /\ i \in saved_secrets => org_state[i] = "Merged" /\ CountOrg("save_credentials", i) = 1
          /\ i < org_idx => i \in saved_secrets
    /\ saved_secrets \subseteq Orgs
    /\ (pc = "failed" /\ org_idx \in Orgs) => org_idx \notin saved_secrets

\* C18: save_credentials is called for an organization only after its fold
\* returned Ok and every entry is in the store; an organization that failed has no
\* saved secret; and a saved secret stays saved, also when a later organization
\* fails and the credentials file is never written.
C18_SecretSavedOnlyAfterMerge ==
    /\ []SecretsSavedAfterMerge
    /\ [][ /\ saved_secrets \subseteq saved_secrets'
           /\ saved_secrets' # saved_secrets => pc = "save_credentials" /\ org_credentials = {}
         ]_vars

\* C18 witness: the second organization failed, the credentials file was never
\* written, and the secret of the first organization is saved.
C18_Witness ==
    /\ pc = "failed"
    /\ org_idx = 2
    /\ saved_secrets = {1}
    /\ disk = file
    /\ credentials_store # file

AuthOps == {"get_password", "get_session_token", "new_session"}

\* C19: every organization that got as far as the fold was authenticated by one
\* get_password, one get_session_token and one new_session call, whatever the
\* number of its selected profiles; a failure of one of them ends the run as Failed
\* with nothing written, also for an organization with no selected profile.
C19_AuthenticateEveryOrganization ==
    /\ \A i \in Orgs :
          /\ (org_state[i] \in {"SessionEstablished", "Resolving", "Aggregated", "Merged"}
                \/ i < org_idx) =>
                 \A op \in AuthOps : CountOrg(op, i) = 1
          /\ (i <= org_idx /\ pc # "get_password") => CountOrg("get_password", i) = 1
    /\ error.message \in {"cannot get password", "login failed", "session exchange failed"} =>
          /\ pc = "failed"
          /\ org_state[org_idx] = "Failed"
          /\ disk = file
          /\ \A c \in CallsMade : c.op = "save" => FALSE

\* C19 witness: the login of an organization without a selected profile failed
\* and the run is Failed.
C19_Witness ==
    /\ pc = "failed"
    /\ error.message = "login failed"
    /\ SelectedProfiles(org_idx) = {}
    /\ CountOrg("get_session_token", org_idx) = 1

UnreachableErrors ==
    { "Failed to un-reference-count the credentials store",
      "Failed to un-mutex the credentials store" }

\* The state part of C20: a run that has not ended can take a step, the guard
\* of the store is free whenever the main thread asks for it, main() holds the only
\* reference to the store, and the run ends as Persisted or as Failed, never both.
NeverStuck ==
    /\ Terminated \/ ENABLED Next
    /\ pc = "merge" => holders = {}
    /\ pc \in {"try_unwrap", "done", "failed"} => holders = {}
    /\ arc_strong = 1 /\ ~poisoned
    /\ error.message \notin UnreachableErrors
    /\ pc = "done" => error = NoError /\ disk = credentials_store
    /\ pc = "failed" <=> error # NoError

\* C20: under fair scheduling every run ends, and stays, in exactly one of
\* done (the store persisted) and failed; it never blocks on the store's lock, and
\* the un-reference-count and un-mutex errors never occur.
C20_Terminates ==
    /\ []NeverStuck
    /\ <>[](pc = "done" \/ pc = "failed")
    /\ [][ (pc \in {"done", "failed"}) => (pc' = pc) ]_vars

\* C20 witness: a run that took the store's lock at least twice ended with
\* the store persisted.
C20_Witness ==
    /\ pc = "done"
    /\ CountOrg("set_profile_sts", 1) + (IF 2 \in Orgs THEN CountOrg("set_profile_sts", 2) ELSE 0) >= 2
    /\ disk = credentials_store
    /\ disk # file

====
